---- MODULE Spec2Model ----
(***************************************************************************)
(* Model of the StreamingService of whspr (src/server/streamingService.ts):*)
(* the session table, the per-session music buffer and affirmation pool,   *)
(* the background generation tasks, stop/cleanup and the retention sweep.  *)
(*                                                                         *)
(* Execution model: Node's single-threaded event loop.  An action is the   *)
(* code that runs between two suspension points on real I/O (a generation  *)
(* or synthesis call, an fs.unlink).  Awaits that never leave the          *)
(* microtask queue (awaiting an async function that finished               *)
(* synchronously) are part of the same action.                             *)
(***************************************************************************)
EXTENDS Integers, Sequences, FiniteSets, TLC

(* ------------------------------ bounds -------------------------------- *)
MaxSessions == 1      \* createStreamingSession calls
MaxUpdates  == 3      \* accepted updateSessionPosition calls, all sessions
MaxStops    == 2      \* stopSession invocations that find a given session
MaxTicks    == 1      \* clock advances
MaxFailures == 1      \* failed generation / synthesis attempts
PlayUpdates == 4      \* MaxUpdates of SpecPlay: the length of Scenario
PlayStops   == 1      \* MaxStops of SpecPlay
BufferUpdates == 3    \* MaxUpdates of SpecBuffer
BufferStops == 1      \* MaxStops of SpecBuffer
PairSessions == 2     \* MaxSessions of SpecPair
PairUpdates == 1      \* MaxUpdates of SpecPair
PairStops   == 1      \* MaxStops of SpecPair
EdgeUpdates == 2      \* MaxUpdates of SpecEdge
EdgeStops   == 1      \* MaxStops of SpecEdge
LiveUpdates == 2      \* MaxUpdates of SpecLive
LiveStops   == 1      \* MaxStops of SpecLive

(* -------------------------- program constants ------------------------- *)
DefaultAffirmationInterval == 30   \* options.affirmationInterval || 30
DefaultBufferSize          == 3    \* options.bufferSize || 3
DefaultSegmentDuration     == 60   \* options.segmentDuration || 60, ?.duration || 60
NextSegmentDuration        == 60   \* generateNextSegment: duration: 60
LookAhead                  == 30   \* position >= segmentEndTime - 30
EvictionSlack              == 2    \* length > bufferSize + 2
MaxInactiveTime            == 30   \* minutes: 30 * 60 * 1000 ms
SweepPeriod                == 5    \* minutes: setInterval(..., 5 * 60 * 1000)

(* ------------------------------- inputs ------------------------------- *)
\* Bodies of POST /api/stream/start together with the track row they name.
\* An omitted option is 0 (falsy in `options.x || default`).
SmallRequest ==
  [userId |-> "u1", trackId |-> 1, affirmationInterval |-> 30, bufferSize |-> 1,
   segmentDuration |-> 60, duration |-> 5, texts |-> 1]
DefaultsRequest ==
  [userId |-> "u2", trackId |-> 2, affirmationInterval |-> 0, bufferSize |-> 0,
   segmentDuration |-> 100, duration |-> 5, texts |-> 2]
\* A buffer size below zero is accepted as it is: with -2 the eviction test
\* `length > bufferSize + 2` holds after every push.
NegativeRequest ==
  [userId |-> "u2", trackId |-> 2, affirmationInterval |-> 30, bufferSize |-> -2,
   segmentDuration |-> 60, duration |-> 5, texts |-> 1]
\* A request of another user for a track without affirmation texts.
SilentRequest ==
  [userId |-> "u1", trackId |-> 3, affirmationInterval |-> 30, bufferSize |-> -2,
   segmentDuration |-> 60, duration |-> 5, texts |-> 0]
\* A segment duration below zero is accepted as it is.
BackwardRequest ==
  [userId |-> "u1", trackId |-> 1, affirmationInterval |-> 30, bufferSize |-> 1,
   segmentDuration |-> -60, duration |-> 5, texts |-> 1]
StartRequests ==
  {SmallRequest, DefaultsRequest, NegativeRequest, SilentRequest, BackwardRequest}
UserIds == {r.userId : r \in StartRequests}

\* storage.getTrack(trackId): the columns of the track row that the music
\* options are built from.  Every row here has mood tags.
GetTrack(trackId) ==
  IF trackId = 1
  THEN [trackType |-> "meditation", moodTags |-> <<"focus">>]
  ELSE [trackType |-> "sleep", moodTags |-> <<"peaceful", "calm">>]

\* Bodies of POST /api/stream/:sessionId/position.
Positions == {29, 30, 59, 60}

\* The route hands `position` over unchecked: a value below zero as well.
SeekPositions == {-5, 60}
AllPositions == Positions \cup SeekPositions

\* The position updates of the affirmation scenario (interval 30).
Scenario == <<29, 30, 59, 60>>

\* Clock advances, in minutes.
TimeSteps == {MaxInactiveTime, MaxInactiveTime + SweepPeriod}

Sids == 1..PairSessions

VARIABLES
  sessions,   \* this.sessions: the registered ids, in insertion order
  objs,       \* every StreamingSession object ever created, by id
  tasks,      \* per session: the async calls in flight
  made,       \* per session: number of segment / affirmation files written
  unlinked,   \* storage handle -> number of fs.unlink requests for it
  now,        \* Date.now(), minutes
  hist,       \* per session: notifications emitted and call outcomes
  resp,       \* outcome of the most recent boundary call
  listeners,  \* the event names that have a listener on the service
  budget      \* what the exploration may still do (bounds only)

vars == <<sessions, objs, tasks, made, unlinked, now, hist, resp, listeners, budget>>

(* ------------------------------ helpers ------------------------------- *)
Range(q) == {q[i] : i \in 1..Len(q)}

\* `x || d` on numbers: 0 (and undefined) is falsy.
OrDefault(x, d) == IF x = 0 THEN d ELSE x

\* Math.ceil(a / b) on integers, b # 0.
CeilDiv(a, b) == IF b > 0 THEN -((-a) \div b) ELSE -(a \div (-b))

\* A storage handle (audioPath): uuid-named, unique per generated file.
SegHandle(s, n) == [sid |-> s, kind |-> "seg", n |-> n]
\* Mutant: clip files are named by their position in the batch only.
AffHandleShared(s, n) == [sid |-> 0, kind |-> "aff", n |-> n]

AffHandle(s, n) == [sid |-> s, kind |-> "aff", n |-> n]

\* The id of a segment or of a synthesized clip: a uuid of its own.
SegmentId(s, n) == <<s, "seg", n>>
AudioId(s, n) == <<s, "aff", n>>

RemoveId(q, s) == SelectSeq(q, LAMBDA x : x # s)

Registered(s) == s \in Range(sessions)

\* The ids of the session objects created so far.
Created == DOMAIN objs

\* fs.unlink(h) requested once for every h of H.
AddUnlinks(u, H) ==
  [h \in DOMAIN u \cup H |->
     (IF h \in DOMAIN u THEN u[h] ELSE 0) + (IF h \in H THEN 1 ELSE 0)]

Unlinks(h) == IF h \in DOMAIN unlinked THEN unlinked[h] ELSE 0

NoResp == [op |-> "none"]

(* ------------------------------- Init --------------------------------- *)
\* The exploration bounds of a specification: the calls, clock advances and
\* adapter failures still allowed, the start requests it draws from, and the
\* positions and session ids its clients send.
Budget(nSessions, nUpdates, nStops, nTicks, nFailures, requests, positions) ==
  [sessions |-> nSessions, updates |-> nUpdates, stops |-> nStops, ticks |-> nTicks,
   failures |-> nFailures, requests |-> requests, positions |-> positions,
   ids |-> 1..nSessions,
   running |-> FALSE]   \* TRUE: the clock runs on while a session can still age

\* The state after `new StreamingService()` (lines 67-78): an empty table.
\* `subscribed` are the events an embedding program has put a listener on.
InitState(b, subscribed) ==
  /\ sessions = <<>>
  /\ objs = <<>>
  /\ tasks = <<>>
  /\ made = <<>>
  /\ unlinked = <<>>
  /\ now = 0
  /\ hist = <<>>
  /\ resp = NoResp
  /\ listeners = subscribed
  /\ budget = b

\* The repository subscribes to no event of the service.
InitWith(b) == InitState(b, {})

\* Spec: one session through its whole life, with overlapping stops.
Init ==
  InitWith(Budget(MaxSessions, MaxUpdates, MaxStops, MaxTicks, MaxFailures,
                  {SmallRequest}, {29, 60}))

\* SpecPlay: one session, every position sequence.
InitPlay ==
  InitWith(Budget(MaxSessions, PlayUpdates, PlayStops, MaxTicks, MaxFailures,
                  {SmallRequest}, Positions))

\* SpecBuffer: one session of either buffer size.
InitBuffer ==
  InitWith(Budget(MaxSessions, BufferUpdates, BufferStops, MaxTicks, MaxFailures,
                  {SmallRequest, DefaultsRequest}, {29, 60}))

\* SpecPair: two sessions side by side.
InitPair ==
  InitWith(Budget(PairSessions, PairUpdates, PairStops, MaxTicks, MaxFailures,
                  {NegativeRequest}, {60}))

\* SpecOwners: two sessions, of one owner or of two.
InitOwners ==
  InitWith(Budget(PairSessions, PairUpdates, PairStops, MaxTicks, MaxFailures,
                  {NegativeRequest, SilentRequest}, {60}))

\* SpecEdge: one session with unchecked option and position values, with
\* and without a listener for 'error'.
InitEdge ==
  \E subscribed \in {{}, {"error"}} :
    InitState(Budget(MaxSessions, EdgeUpdates, EdgeStops, MaxTicks, MaxFailures,
                     {NegativeRequest, BackwardRequest}, SeekPositions), subscribed)

\* SpecLive: one session under a clock that keeps running.
InitLive ==
  InitWith([Budget(MaxSessions, LiveUpdates, LiveStops, MaxTicks, MaxFailures,
                   {NegativeRequest}, {60}) EXCEPT !.running = TRUE])

(* ----------------------- createStreamingSession ----------------------- *)
\* Mutant: the track length is left in minutes.
NewSessionMinutes(id, req, t) ==
  [ id |-> id,
    userId |-> req.userId,
    trackId |-> req.trackId,
    isActive |-> TRUE,
    startTime |-> t,
    currentPosition |-> 0,
    totalDuration |-> req.duration,
    affirmationInterval |-> OrDefault(req.affirmationInterval, DefaultAffirmationInterval),
    lastAffirmationTime |-> 0,
    musicSegments |-> <<>>,
    affirmations |-> <<>>,
    currentSegmentIndex |-> 0,
    bufferSize |-> OrDefault(req.bufferSize, DefaultBufferSize) ]

\* lines 84-100
NewSession(id, req, t) ==
  [ id |-> id,
    userId |-> req.userId,
    trackId |-> req.trackId,
    isActive |-> TRUE,
    startTime |-> t,
    currentPosition |-> 0,
    totalDuration |-> req.duration * 60,
    affirmationInterval |-> OrDefault(req.affirmationInterval, DefaultAffirmationInterval),
    lastAffirmationTime |-> 0,
    musicSegments |-> <<>>,
    affirmations |-> <<>>,
    currentSegmentIndex |-> 0,
    bufferSize |-> OrDefault(req.bufferSize, DefaultBufferSize) ]

\* generateInitialSegments, lines 122-127: the options of the batch request.
InitialMusicOptions(trackData, segmentDuration) ==
  [duration |-> segmentDuration, trackType |-> trackData.trackType,
   moodTags |-> trackData.moodTags]

NewTasks(req) ==
  [ init |-> "pending",       \* generateInitialSegments awaiting the batch
    initDuration |-> OrDefault(req.segmentDuration, DefaultSegmentDuration),
    initOptions |-> InitialMusicOptions(GetTrack(req.trackId),
                      OrDefault(req.segmentDuration, DefaultSegmentDuration)),
    aff |-> "pending",        \* generateAffirmationsForSession awaiting the batch
    texts |-> req.texts,
    gen |-> 0,                \* generateNextSegment calls awaiting generateMusicSegment
    evict |-> 0,              \* generateNextSegment calls awaiting the eviction unlink
    stops |-> <<>>,           \* stopSession calls awaiting a cleanup unlink
    stopCalls |-> 0 ]

NewHist ==
  [ played |-> <<>>,          \* positions of the playAffirmation notifications
    monotone |-> TRUE,        \* the accepted positions so far are strictly increasing
    stopped |-> 0,            \* sessionStopped notifications
    stopOk |-> 0,             \* stopSession calls that returned normally
    scenario |-> 0,           \* the accepted updates so far are the first `scenario`
                              \* positions of Scenario, each made with a non-empty
                              \* pool; -1 once they are not
    updatedAt |-> -1,         \* clock reading of the last accepted update
    late |-> FALSE,           \* a music generation call resolved after stop began
    lateNotify |-> FALSE ]    \* segmentsReady, newSegmentReady or affirmationsReady
                              \* was emitted after sessionStopped

CreateStreamingSession(req) ==
  LET id == Len(objs) + 1 IN
  /\ req \in budget.requests
  /\ budget.sessions > 0
  /\ budget' = [budget EXCEPT !.sessions = @ - 1]
  /\ objs' = Append(objs, NewSession(id, req, now))
  /\ sessions' = Append(sessions, id)
  /\ tasks' = Append(tasks, NewTasks(req))
  /\ made' = Append(made, [seg |-> 0, aff |-> 0])
  /\ hist' = Append(hist, NewHist)
  /\ resp' = [op |-> "create", sid |-> id, res |-> "ok", request |-> req]
  /\ UNCHANGED <<listeners, unlinked, now>>

(* ------------------------ background population ----------------------- *)
\* The stopSession calls of a session that iterate `arr` (for...of holds the
\* array object): when the session's field is assigned a new array, they keep
\* the old one.
Detach(stops, phase, arr) ==
  [k \in 1..Len(stops) |->
     IF stops[k].phase = phase /\ stops[k].live
     THEN [stops[k] EXCEPT !.live = FALSE, !.arr = arr]
     ELSE stops[k]]

\* musicGenerationService.generateStreamingSegments(options, segmentCount):
\* the loop makes segmentCount attempts of duration ceil(duration / count);
\* a failed attempt is skipped.  `k` attempts succeeded.
GenerateStreamingSegments(s, duration, segmentCount, k, first) ==
  [i \in 1..k |->
     [id |-> SegmentId(s, first + i), audioPath |-> SegHandle(s, first + i),
      duration |-> CeilDiv(duration, segmentCount)]]

BatchAttempts(segmentCount) == IF segmentCount > 0 THEN segmentCount ELSE 0

\* generateInitialSegments resumes after `await generateStreamingSegments`.
InitialSegmentsReady(s) ==
  \E k \in 0..BatchAttempts(objs[s].bufferSize) :
  /\ tasks[s].init = "pending"
  /\ BatchAttempts(objs[s].bufferSize) - k <= budget.failures
  /\ budget' = [budget EXCEPT !.failures = @ - (BatchAttempts(objs[s].bufferSize) - k)]
  /\ LET segments == GenerateStreamingSegments(s, tasks[s].initDuration,
                                                objs[s].bufferSize, k, made[s].seg)
     IN /\ objs' = [objs EXCEPT ![s].musicSegments = segments]
        /\ tasks' = [tasks EXCEPT ![s].init = "done",
                                  ![s].stops = Detach(@, "segs", objs[s].musicSegments)]
        /\ made' = [made EXCEPT ![s].seg = @ + k]
        /\ hist' = [hist EXCEPT ![s].late = @ \/ hist[s].stopped > 0,
                                ![s].lateNotify = @ \/ hist[s].stopped > 0]
  /\ resp' = NoResp
  /\ UNCHANGED <<listeners, sessions, unlinked, now>>

\* The i-th smallest member of a finite set of numbers, as a sequence.
SortedSeq(S) ==
  [j \in 1..Cardinality(S) |-> CHOOSE x \in S : Cardinality({y \in S : y < x}) = j - 1]

\* Mutant: the clips come back last text first.
SynthesizeAffirmationSequenceReversed(s, ok) ==
  LET order == SortedSeq(ok) IN
  [j \in 1..Len(order) |->
     [id |-> AudioId(s, j), audioPath |-> AffHandle(s, j),
      text |-> order[Len(order) + 1 - j]]]

\* voiceSynthesisService.synthesizeAffirmationSequence(texts): one attempt per
\* text, in order; a failed one is skipped.  `ok` is the set of texts that
\* synthesized.
SynthesizeAffirmationSequence(s, ok) ==
  LET order == SortedSeq(ok) IN
  [j \in 1..Len(order) |->
     [id |-> AudioId(s, j), audioPath |-> AffHandle(s, j), text |-> order[j]]]

\* generateAffirmationsForSession resumes after `await synthesize...`.
AffirmationsReady(s) ==
  \E ok \in SUBSET (1..tasks[s].texts) :
  /\ tasks[s].aff = "pending"
  /\ tasks[s].texts - Cardinality(ok) <= budget.failures
  /\ budget' = [budget EXCEPT !.failures = @ - (tasks[s].texts - Cardinality(ok))]
  /\ objs' = [objs EXCEPT ![s].affirmations = SynthesizeAffirmationSequence(s, ok)]
  /\ tasks' = [tasks EXCEPT ![s].aff = "done",
                            ![s].stops = Detach(@, "affs", objs[s].affirmations)]
  /\ made' = [made EXCEPT ![s].aff = Cardinality(ok)]
  /\ hist' = [hist EXCEPT ![s].lateNotify = @ \/ hist[s].stopped > 0]
  /\ resp' = NoResp
  /\ UNCHANGED <<listeners, sessions, unlinked, now>>

(* ------------------------ updateSessionPosition ----------------------- *)
\* Mutant: the comparison made strict.
AffirmationDueStrict(session, position) ==
  position - session.lastAffirmationTime > session.affirmationInterval

\* line 175: position - session.lastAffirmationTime >= session.affirmationInterval
AffirmationDue(session, position) ==
  position - session.lastAffirmationTime >= session.affirmationInterval

\* triggerAffirmation: TRUE iff a playAffirmation is emitted.
PoolAvailable(session) == Len(session.affirmations) # 0

\* Mutant: lastAffirmationTime is not advanced.
MarkAffirmationStale(session) == session

\* triggerAffirmation, line 198.
MarkAffirmation(session) ==
  [session EXCEPT !.lastAffirmationTime = session.currentPosition]

\* Mutant: the time is marked whether or not a clip is available.
TriggerAffirmationAlways(session) == MarkAffirmation(session)

\* triggerAffirmation, lines 188-198: the session it leaves.  With an empty
\* pool it warns and returns (lines 189-192).
TriggerAffirmation(session) ==
  IF PoolAvailable(session) THEN MarkAffirmation(session) ELSE session

\* Mutant: the default duration is used whatever the buffer holds.
SegmentEndTimeDefault(session) ==
  session.currentSegmentIndex * DefaultSegmentDuration + DefaultSegmentDuration

\* lines 180-181: `musicSegments[currentSegmentIndex]?.duration || 60`, then
\* index * duration + duration.
SegmentEndTime(session) ==
  LET i == session.currentSegmentIndex + 1
      currentSegmentDuration ==
        IF i \in 1..Len(session.musicSegments)
        THEN OrDefault(session.musicSegments[i].duration, DefaultSegmentDuration)
        ELSE DefaultSegmentDuration
  IN session.currentSegmentIndex * currentSegmentDuration + currentSegmentDuration

\* Mutant: no look-ahead: growth starts at the end of the segment.
NeedsNextSegmentAtEnd(session, position) == position >= SegmentEndTime(session)

\* line 183
NeedsNextSegment(session, position) == position >= SegmentEndTime(session) - LookAhead

\* Mutant: any session object ever created is accepted, stopped or not.
NotFoundUncreated(s) == s \notin Created

\* Mutant: only the presence of the record is tested.
NotFoundOnly(s) == ~Registered(s)

\* line 168: !session || !session.isActive
NotFoundOrInactive(s) == ~Registered(s) \/ ~objs[s].isActive

\* generateNextSegment, lines 209-214: the options of a growth request.
NextSegmentOptions ==
  [duration |-> NextSegmentDuration, trackType |-> "sleep",
   moodTags |-> <<"peaceful", "calm">>]

UpdateSessionPosition(s, position) ==
  /\ position \in budget.positions
  /\ s \in budget.ids
  /\ IF NotFoundOrInactive(s)
     THEN /\ resp' = [op |-> "update", sid |-> s, res |-> "NotFound"]
          /\ UNCHANGED <<listeners, sessions, objs, tasks, made, unlinked, now, hist, budget>>
     ELSE
       /\ budget.updates > 0
       /\ LET moved == [objs[s] EXCEPT !.currentPosition = position]
              due == AffirmationDue(moved, position)
              play == due /\ PoolAvailable(moved)
              after == IF due THEN TriggerAffirmation(moved) ELSE moved
              grow == NeedsNextSegment(after, position)
          IN /\ \E clip \in (IF play THEN 1..Len(moved.affirmations) ELSE {0}) :
                  resp' = [op |-> "update", sid |-> s, res |-> "ok", position |-> position,
                           before |-> objs[s].lastAffirmationTime,
                           pool |-> Len(moved.affirmations),
                           played |-> IF play THEN <<moved.affirmations[clip].id>> ELSE <<>>,
                           generate |-> grow,
                           options |-> IF grow THEN <<NextSegmentOptions>> ELSE <<>>]
             /\ objs' = [objs EXCEPT ![s] = after]
             /\ tasks' = [tasks EXCEPT ![s].gen = IF grow THEN @ + 1 ELSE @]
             /\ hist' = [hist EXCEPT
                           ![s].played = IF play THEN Append(@, position) ELSE @,
                           ![s].monotone = @ /\ position > objs[s].currentPosition,
                           ![s].scenario =
                             IF @ >= 0 /\ @ < Len(Scenario) /\ PoolAvailable(moved)
                                /\ position = Scenario[@ + 1]
                             THEN @ + 1 ELSE -1,
                           ![s].updatedAt = now]
       /\ budget' = [budget EXCEPT !.updates = @ - 1]
       /\ UNCHANGED <<listeners, sessions, made, unlinked, now>>

(* -------------------------- generateNextSegment ----------------------- *)
\* An updateSessionPosition call that awaited generateNextSegment (line 184)
\* returns to its caller: "ok", or the rejection the route answers with 500.
GenerationFailure == "GenerationFailure"

UpdateReturns(s, outcome) == [op |-> "updateReturn", sid |-> s, res |-> outcome]

\* Mutant: the eviction is left out.
PushWithoutEvict(musicSegments, newSegment, bufferSize) ==
  [buffer |-> Append(musicSegments, newSegment), evicted |-> <<>>]

\* Mutant: unshift and pop: the new segment goes to the head and the tail
\* is dropped.
PushFrontAndEvict(musicSegments, newSegment, bufferSize) ==
  LET pushed == <<newSegment>> \o musicSegments IN
  IF Len(pushed) > bufferSize + EvictionSlack
  THEN [buffer |-> SubSeq(pushed, 1, Len(pushed) - 1), evicted |-> <<pushed[Len(pushed)]>>]
  ELSE [buffer |-> pushed, evicted |-> <<>>]

\* Mutant: the youngest of the segments buffered before is dropped.
PushAndEvictYoungest(musicSegments, newSegment, bufferSize) ==
  LET n == Len(musicSegments) IN
  IF n + 1 > bufferSize + EvictionSlack /\ n > 0
  THEN [buffer |-> Append(SubSeq(musicSegments, 1, n - 1), newSegment),
        evicted |-> <<musicSegments[n]>>]
  ELSE [buffer |-> Append(musicSegments, newSegment), evicted |-> <<>>]

\* lines 217-221: push, then shift when the length exceeds bufferSize + 2.
\* Gives the buffer and the evicted segments (at most one).
PushAndEvict(musicSegments, newSegment, bufferSize) ==
  LET pushed == Append(musicSegments, newSegment) IN
  IF Len(pushed) > bufferSize + EvictionSlack
  THEN [buffer |-> Tail(pushed), evicted |-> <<Head(pushed)>>]
  ELSE [buffer |-> pushed, evicted |-> <<>>]

\* generateNextSegment resumes after `await generateMusicSegment` with a
\* segment: lines 217-225, and lines 232-233 when nothing was evicted.
NextSegmentReady(s) ==
  /\ tasks[s].gen > 0
  /\ LET newSegment == [id |-> SegmentId(s, made[s].seg + 1),
                        audioPath |-> SegHandle(s, made[s].seg + 1),
                        duration |-> NextSegmentDuration]
         r == PushAndEvict(objs[s].musicSegments, newSegment, objs[s].bufferSize)
         evicting == Len(r.evicted) > 0
     IN /\ objs' = [objs EXCEPT ![s].musicSegments = r.buffer]
        /\ made' = [made EXCEPT ![s].seg = @ + 1]
        /\ unlinked' = AddUnlinks(unlinked, {r.evicted[i].audioPath : i \in 1..Len(r.evicted)})
        /\ tasks' = [tasks EXCEPT ![s].gen = @ - 1,
                                  ![s].evict = IF evicting THEN @ + 1 ELSE @]
        /\ hist' = [hist EXCEPT ![s].late = @ \/ hist[s].stopped > 0,
                                ![s].lateNotify = @ \/ (~evicting /\ hist[s].stopped > 0)]
        /\ resp' = IF evicting THEN NoResp ELSE UpdateReturns(s, "ok")
  /\ UNCHANGED <<listeners, sessions, now, budget>>

\* generateNextSegment resumes after the eviction's `await fs.unlink`
\* (whatever its outcome): lines 232-233.
EvictionDone(s) ==
  /\ tasks[s].evict > 0
  /\ tasks' = [tasks EXCEPT ![s].evict = @ - 1]
  /\ hist' = [hist EXCEPT ![s].lateNotify = @ \/ hist[s].stopped > 0]
  /\ resp' = UpdateReturns(s, "ok")
  /\ UNCHANGED <<listeners, sessions, objs, made, unlinked, now, budget>>

\* this.emit('error', session.id, error) inside a catch block (lines 141, 162,
\* 236): EventEmitter throws when 'error' has no listener, and the throw
\* leaves the async function as a rejection.
EmitError(subscribed) ==
  IF "error" \in subscribed THEN "ok" ELSE GenerationFailure

\* generateMusicSegment rejects: the catch of lines 234-237.  The awaiting
\* updateSessionPosition (line 184) ends the way generateNextSegment ends.
NextSegmentFailed(s) ==
  /\ tasks[s].gen > 0
  /\ budget.failures > 0
  /\ budget' = [budget EXCEPT !.failures = @ - 1]
  /\ tasks' = [tasks EXCEPT ![s].gen = @ - 1]
  /\ resp' = UpdateReturns(s, EmitError(listeners))
  /\ UNCHANGED <<listeners, sessions, objs, made, unlinked, now, hist>>

(* ----------------------- stopSession / cleanupSession ------------------ *)
\* A stopSession call suspended in cleanupSession at `await fs.unlink`: the
\* loop it is in, the array that loop iterates (the session's current one
\* while `live`, else the array object it started on) and the index of the
\* element whose unlink it awaits.  `owned` are the handles the session held
\* when the call began.
FirstLoop == [phase |-> "segs", live |-> TRUE, arr |-> <<>>, idx |-> 0, owned |-> {}]

\* The storage handles in the session's two sequences.
Owned(session) ==
  {session.musicSegments[i].audioPath : i \in 1..Len(session.musicSegments)}
    \cup {session.affirmations[i].audioPath : i \in 1..Len(session.affirmations)}

LoopArray(session, task) ==
  IF ~task.live THEN task.arr
  ELSE IF task.phase = "segs" THEN session.musicSegments ELSE session.affirmations

\* cleanupSession from the point where the unlink of element `idx` returned
\* (or threw: both are swallowed) up to the next `await fs.unlink`, or to the
\* end.  The array iterator reads the length again at every step.
CleanupResume(session, task) ==
  LET a == LoopArray(session, task) IN
  IF task.idx < Len(a)
  THEN [done |-> FALSE, task |-> [task EXCEPT !.idx = @ + 1], unlink |-> {a[task.idx + 1].audioPath}]
  ELSE IF task.phase = "segs" /\ Len(session.affirmations) > 0
  THEN [done |-> FALSE,
        task |-> [task EXCEPT !.phase = "affs", !.live = TRUE, !.arr = <<>>, !.idx = 1],
        unlink |-> {session.affirmations[1].audioPath}]
  ELSE [done |-> TRUE, task |-> task, unlink |-> {}]

\* Mutant: the session is left active.
DeactivateNot(session) == session

\* stopSession line 250.
Deactivate(session) == [session EXCEPT !.isActive = FALSE]

\* Mutant: the record is left in the table.
DeleteSessionNot(registry, s) == registry

\* stopSession line 255: this.sessions.delete(sessionId).
DeleteSession(registry, s) == RemoveId(registry, s)

\* stopSession, lines 245-254, run for every id of Q (all registered) in one
\* synchronous block, each up to its first `await fs.unlink`; a cleanup with
\* nothing to unlink runs through to line 255.
BeginStops(Q) ==
  LET r == [s \in Q |-> CleanupResume(Deactivate(objs[s]),
                                      [FirstLoop EXCEPT !.owned = Owned(objs[s])])] IN
  /\ objs' = [s \in DOMAIN objs |-> IF s \in Q THEN Deactivate(objs[s]) ELSE objs[s]]
  /\ tasks' = [s \in DOMAIN tasks |->
                 IF s \in Q
                 THEN [tasks[s] EXCEPT !.stopCalls = @ + 1,
                                       !.stops = IF r[s].done THEN @ ELSE Append(@, r[s].task)]
                 ELSE tasks[s]]
  /\ unlinked' = AddUnlinks(unlinked, UNION {r[s].unlink : s \in Q})
  /\ sessions' = LET Gone == {s \in Q : r[s].done}
                      Drop[i \in 0..Len(sessions)] ==
                        IF i = 0 THEN sessions
                        ELSE IF sessions[i] \in Gone THEN DeleteSession(Drop[i - 1], sessions[i])
                        ELSE Drop[i - 1]
                  IN Drop[Len(sessions)]
  /\ hist' = [s \in DOMAIN hist |->
                IF s \in Q
                THEN [hist[s] EXCEPT !.stopped = @ + 1,
                                     !.stopOk = IF r[s].done THEN @ + 1 ELSE @]
                ELSE hist[s]]

StopSession(s) ==
  /\ s \in budget.ids
  /\ IF ~Registered(s)
     THEN /\ resp' = [op |-> "stop", sid |-> s, res |-> "NotFound"]
          /\ UNCHANGED <<listeners, sessions, objs, tasks, made, unlinked, now, hist, budget>>
     ELSE /\ tasks[s].stopCalls < budget.stops
          /\ BeginStops({s})
          /\ resp' = [op |-> "stop", sid |-> s, res |-> "found"]
          /\ UNCHANGED <<listeners, made, now, budget>>

\* A suspended stopSession resumes after its `await fs.unlink`, whether the
\* unlink succeeded or threw (lines 264-268, 273-277); at the end of the pass
\* it deletes the record and returns (lines 255-258).
CleanupStep(s) ==
  \E k \in 1..Len(tasks[s].stops) :
  /\ LET r == CleanupResume(objs[s], tasks[s].stops[k]) IN
     /\ unlinked' = AddUnlinks(unlinked, r.unlink)
     /\ tasks' = [tasks EXCEPT ![s].stops =
                    IF r.done
                    THEN SubSeq(@, 1, k - 1) \o SubSeq(@, k + 1, Len(@))
                    ELSE [@ EXCEPT ![k] = r.task]]
     /\ sessions' = IF r.done THEN DeleteSession(sessions, s) ELSE sessions
     /\ hist' = [hist EXCEPT ![s].stopOk = IF r.done THEN @ + 1 ELSE @]
     /\ resp' = IF r.done
                THEN [op |-> "stopReturn", sid |-> s, res |-> "ok", owned |-> r.task.owned]
                ELSE NoResp
  /\ UNCHANGED <<listeners, objs, made, now, budget>>

(* ------------------------ cleanupInactiveSessions --------------------- *)
\* Mutant: an idle-time ceiling: a session that has received a position
\* update is not aged out.
ExpiredIdle(session, t) ==
  ~session.isActive
  \/ ((t - session.startTime) > MaxInactiveTime /\ session.currentPosition = 0)

\* Mutant: no age ceiling: only inactive sessions are swept.
ExpiredInactive(session, t) == ~session.isActive

\* Mutant: a session is aged out at the ceiling already.
ExpiredAtCeiling(session, t) ==
  ~session.isActive \/ (t - session.startTime) >= MaxInactiveTime

\* line 291
Expired(session, t) ==
  ~session.isActive \/ (t - session.startTime) > MaxInactiveTime

\* lines 288-294
SessionsToCleanup(t) == {s \in Range(sessions) : Expired(objs[s], t)}

CleanupInactiveSessions ==
  LET Q == SessionsToCleanup(now) IN
  /\ \A s \in Q : tasks[s].stopCalls < budget.stops
  /\ BeginStops(Q)
  /\ resp' = [op |-> "sweep", stopped |-> Q]
  /\ UNCHANGED <<listeners, made, now, budget>>

\* Time passes.  Only differences of clock readings are ever computed (line
\* 291), so the clock is left at 0 until there is a session to age, and a
\* running clock is stopped once every registered session is past the
\* ceiling.
Tick(d) ==
  /\ \/ budget.ticks > 0
     \/ budget.running /\ \E s \in Range(sessions) : now - objs[s].startTime <= MaxInactiveTime
  /\ sessions # <<>>
  /\ now' = now + d
  /\ budget' = [budget EXCEPT !.ticks = IF @ > 0 THEN @ - 1 ELSE @]
  /\ resp' = NoResp
  /\ UNCHANGED <<listeners, sessions, objs, tasks, made, unlinked, hist>>

(* ------------------------------ lookups ------------------------------- *)
NotFound == "NotFound"

\* The outcome of a lookup: the audio path it returns, or the error it throws.
Returns(audioPath) == [res |-> "ok", audioPath |-> audioPath]
Throws(error) == [res |-> error]

\* Mutant: the isActive test is left out.
GetUserSessionsOfOwner(userId) ==
  SelectSeq([i \in 1..Len(sessions) |-> objs[sessions[i]]],
            LAMBDA session : session.userId = userId)

\* getUserSessions, lines 304-308: Map iteration is in insertion order.
GetUserSessions(userId) ==
  SelectSeq([i \in 1..Len(sessions) |-> objs[sessions[i]]],
            LAMBDA session : session.userId = userId /\ session.isActive)

\* Mutant: a session being cleaned up still answers.
GetStreamingUrlOfRegistered(s, segmentIndex) ==
  IF ~Registered(s) THEN Throws(NotFound)
  ELSE IF segmentIndex + 1 \in 1..Len(objs[s].musicSegments)
  THEN Returns(objs[s].musicSegments[segmentIndex + 1].audioPath)
  ELSE Throws(NotFound)

\* Mutant: the index counts from 1.
GetStreamingUrlFromOne(s, segmentIndex) ==
  IF ~Registered(s) \/ ~objs[s].isActive THEN Throws(NotFound)
  ELSE IF segmentIndex \in 1..Len(objs[s].musicSegments)
  THEN Returns(objs[s].musicSegments[segmentIndex].audioPath)
  ELSE Throws(NotFound)

\* getStreamingUrl, lines 310-324 (segmentIndex counts from 0).
GetStreamingUrl(s, segmentIndex) ==
  IF ~Registered(s) \/ ~objs[s].isActive THEN Throws(NotFound)
  ELSE IF segmentIndex + 1 \in 1..Len(objs[s].musicSegments)
  THEN Returns(objs[s].musicSegments[segmentIndex + 1].audioPath)
  ELSE Throws(NotFound)

\* getAffirmationUrl, lines 326-338.
GetAffirmationUrl(s, affirmationId) ==
  IF ~Registered(s) \/ ~objs[s].isActive THEN Throws(NotFound)
  ELSE LET found == SelectSeq(objs[s].affirmations, LAMBDA a : a.id = affirmationId)
       IN IF found # <<>> THEN Returns(found[1].audioPath) ELSE Throws(NotFound)

Next ==
  \/ \E req \in StartRequests : CreateStreamingSession(req)
  \/ \E s \in Created : InitialSegmentsReady(s)
  \/ \E s \in Created : AffirmationsReady(s)
  \/ \E s \in Sids, position \in AllPositions : UpdateSessionPosition(s, position)
  \/ \E s \in Created : NextSegmentReady(s)
  \/ \E s \in Created : EvictionDone(s)
  \/ \E s \in Created : NextSegmentFailed(s)
  \/ \E s \in Sids : StopSession(s)
  \/ \E s \in Created : CleanupStep(s)
  \/ CleanupInactiveSessions
  \/ \E d \in TimeSteps : Tick(d)

Spec == Init /\ [][Next]_vars
SpecPlay == InitPlay /\ [][Next]_vars
SpecBuffer == InitBuffer /\ [][Next]_vars
SpecPair == InitPair /\ [][Next]_vars
SpecEdge == InitEdge /\ [][Next]_vars
SpecOwners == InitOwners /\ [][Next]_vars

\* The interval timer of the constructor (lines 75-77) keeps firing, time
\* keeps passing, and every fs.unlink that a cleanup pass awaits settles.
\* Nothing is assumed of the generation and synthesis calls or of clients.
Fairness ==
  /\ WF_vars(CleanupInactiveSessions)
  /\ WF_vars(\E d \in TimeSteps : Tick(d))
  /\ \A s \in Sids : WF_vars(s \in Created /\ CleanupStep(s))

SpecLive == InitLive /\ [][Next]_vars /\ Fairness

(* ============================== properties ============================ *)
Age(s) == now - objs[s].startTime

\* The storage handles ever created for session s.
HandlesOf(s) ==
  {SegHandle(s, n) : n \in 1..made[s].seg} \cup {AffHandle(s, n) : n \in 1..made[s].aff}

\* Music generation calls of session s that have not resolved.
OutstandingGenerations(s) ==
  (IF tasks[s].init = "pending" THEN 1 ELSE 0) + tasks[s].gen

\* No background task or stop of session s is in flight.
Quiescent(s) ==
  /\ tasks[s].init = "done" /\ tasks[s].aff = "done"
  /\ tasks[s].gen = 0 /\ tasks[s].evict = 0
  /\ tasks[s].stops = <<>>

\* C1: every state is a suspension point of the event loop; in each of them
\* a session with bufferSize >= 1 buffers at most bufferSize + 2 segments.
C1_BufferBounded ==
  \A s \in Created :
    objs[s].bufferSize >= 1
      => Len(objs[s].musicSegments) <= objs[s].bufferSize + EvictionSlack

\* C1 witness: a buffer of the default size that is full after an eviction.
C1_Witness ==
  \E s \in Created :
    /\ objs[s].bufferSize = DefaultBufferSize
    /\ Len(objs[s].musicSegments) = objs[s].bufferSize + EvictionSlack
    /\ made[s].seg > objs[s].bufferSize + EvictionSlack
    /\ Unlinks(SegHandle(s, 1)) = 1

\* C2: while the accepted positions of a session are strictly increasing,
\* consecutive playAffirmation notifications are at least affirmationInterval
\* seconds of position apart.
C2_AffirmationSpacing ==
  \A s \in Created :
    hist[s].monotone =>
      \A i \in 1..(Len(hist[s].played) - 1) :
        hist[s].played[i + 1] - hist[s].played[i] >= objs[s].affirmationInterval

\* C2 witness: two notifications on an increasing run.
C2_Witness ==
  \E s \in Created : hist[s].monotone /\ Len(hist[s].played) >= 2

\* Number of playAffirmation notifications of each step of Scenario.
ScenarioPlays == <<0, 1, 0, 1>>

\* C3: an accepted update made with a non-empty pool emits one
\* playAffirmation and sets lastAffirmationTime to the position when
\* position - lastAffirmationTime >= affirmationInterval, and otherwise emits
\* none and leaves lastAffirmationTime alone; on a fresh session with
\* interval 30 the updates 29, 30, 59, 60 emit none, one, none, one.
C3_PlaysExactlyWhenDue ==
  (resp.op = "update" /\ resp.res = "ok" /\ resp.pool > 0) =>
    LET session == objs[resp.sid] IN
    /\ IF resp.position - resp.before >= session.affirmationInterval
       THEN Len(resp.played) = 1 /\ session.lastAffirmationTime = resp.position
       ELSE Len(resp.played) = 0 /\ session.lastAffirmationTime = resp.before
    /\ (hist[resp.sid].scenario >= 1 /\ session.affirmationInterval = 30)
         => Len(resp.played) = ScenarioPlays[hist[resp.sid].scenario]

\* C3 witness: the last update of the scenario has emitted its notification.
C3_Witness ==
  /\ resp.op = "update" /\ resp.res = "ok"
  /\ hist[resp.sid].scenario = Len(Scenario)
  /\ Len(resp.played) = 1
  /\ hist[resp.sid].played = <<30, 60>>

\* C4: a stopSession that returns normally has removed the session, and a
\* stopSession issued on an id after a stop of it has returned reports
\* NotFound and changes nothing.
C4_StopThenNotFound ==
  [][\A s \in Created :
       /\ hist'[s].stopOk > hist[s].stopOk => s \notin Range(sessions')
       /\ (hist[s].stopOk > 0 /\ resp'.op = "stop" /\ resp'.sid = s)
            => /\ resp'.res = NotFound
               /\ UNCHANGED <<sessions, objs, tasks, made, unlinked, now, hist>>]_vars

\* C4 witness: NotFound for a stop after a completed stop that released files.
C4_Witness ==
  /\ resp.op = "stop" /\ resp.res = NotFound
  /\ resp.sid \in Created
  /\ hist[resp.sid].stopOk = 1
  /\ \E h \in HandlesOf(resp.sid) : Unlinks(h) >= 1

\* C5: no storage handle has its release requested more than once.
C5_NoDoubleRelease ==
  \A h \in DOMAIN unlinked : unlinked[h] <= 1

\* C6: once a music generation call has resolved after the stop of its
\* session began, the session is in no getUserSessions result and
\* getStreamingUrl returns no handle for it.
C6_StoppedStaysHidden ==
  \A s \in Created :
    hist[s].late =>
      /\ \A i \in 1..Len(GetUserSessions(objs[s].userId)) :
           GetUserSessions(objs[s].userId)[i].id # s
      /\ \A segmentIndex \in 0..Len(objs[s].musicSegments) :
           GetStreamingUrl(s, segmentIndex) = Throws(NotFound)

\* C6 witness: the late call left segments in the record of a session that
\* is still registered.
C6_Witness ==
  \E s \in Created :
    /\ hist[s].late
    /\ Registered(s)
    /\ Len(objs[s].musicSegments) > 0

\* C7: once the stop of a session has begun, its segment sequence and its
\* affirmation sequence never change.
C7_LateResultDiscarded ==
  [][\A s \in Created :
       hist[s].stopped > 0
         => /\ objs'[s].musicSegments = objs[s].musicSegments
            /\ objs'[s].affirmations = objs[s].affirmations]_vars

\* C8: at most one music generation call is outstanding per session.
C8_SingleFlight ==
  \A s \in Created : OutstandingGenerations(s) <= 1

C10_AllReleased ==
  \A s \in Created :
    (hist[s].stopOk > 0 /\ Quiescent(s))
      => \A h \in HandlesOf(s) : Unlinks(h) >= 1

\* C11: when the initial batch of a session with bufferSize n >= 1 resolves
\* with no failed attempt, the session holds exactly n segments, each of
\* duration ceil(totalDuration / n), and their durations sum to at least
\* totalDuration.
C11_InitialBatchCoversTrack ==
  [][\A s \in Created :
       (/\ tasks[s].init = "pending" /\ tasks'[s].init = "done"
        /\ budget'.failures = budget.failures
        /\ objs[s].bufferSize >= 1)
         => LET segs == objs'[s].musicSegments
                n == objs[s].bufferSize
                T == objs[s].totalDuration
                Sum[i \in 0..Len(segs)] ==
                  IF i = 0 THEN 0 ELSE Sum[i - 1] + segs[i].duration
            IN /\ Len(segs) = n
               /\ \A i \in 1..Len(segs) : segs[i].duration = CeilDiv(T, n)
               /\ Sum[Len(segs)] >= T]_vars

\* C12: a generation call that fails never makes the updateSessionPosition
\* call awaiting it fail, and leaves the session as active and as registered
\* as it was, with or without a listener for 'error'.
C12_FailureStaysInternal ==
  [][\A s \in Created :
       (tasks'[s].gen < tasks[s].gen /\ budget'.failures < budget.failures)
         => /\ resp'.op = "updateReturn" /\ resp'.sid = s /\ resp'.res = "ok"
            /\ objs'[s].isActive = objs[s].isActive
            /\ (s \in Range(sessions')) = (s \in Range(sessions))]_vars

\* C13: every registered session has bufferSize > 0 and
\* affirmationInterval > 0 (options that are not are rejected).
C13_OptionsValidated ==
  \A s \in Range(sessions) :
    objs[s].bufferSize > 0 /\ objs[s].affirmationInterval > 0

\* C14: createStreamingSession returns, with both background calls still
\* unresolved, a session registered under an id no earlier session had, that
\* is active, at position 0, segment index 0, lastAffirmationTime 0, with
\* totalDuration the track's minutes times 60 and with empty sequences.
C14_CreateReturnsFreshSession ==
  [][resp'.op = "create" =>
       LET s == resp'.sid
           session == objs'[s]
       IN /\ s \notin Created
          /\ Cardinality({i \in 1..Len(sessions') : sessions'[i] = s}) = 1
          /\ session.id = s
          /\ session.isActive
          /\ session.currentPosition = 0
          /\ session.currentSegmentIndex = 0
          /\ session.lastAffirmationTime = 0
          /\ session.totalDuration = resp'.request.duration * 60
          /\ session.musicSegments = <<>>
          /\ session.affirmations = <<>>
          /\ tasks'[s].init = "pending" /\ tasks'[s].aff = "pending"
          /\ made'[s] = [seg |-> 0, aff |-> 0]]_vars

\* C14 witness: a second session was just created while the first one has
\* already moved and holds content.
C14_Witness ==
  /\ resp.op = "create" /\ resp.sid = 2
  /\ objs[1].currentPosition > 0
  /\ objs[1].affirmations # <<>>
  /\ objs[2].affirmations = <<>>

\* C15: for every user, getUserSessions returns exactly the sessions of that
\* user that were started and whose stop has not begun, in creation order.
C15_ListsOwnActiveSessions ==
  \A u \in UserIds :
    LET listed == GetUserSessions(u)
        expected == SortedSeq({s \in Created : objs[s].userId = u /\ hist[s].stopped = 0})
    IN /\ Len(listed) = Len(expected)
       /\ \A i \in 1..Len(listed) : listed[i] = objs[expected[i]]

\* C15 witness: two registered sessions of different owners, the stop of one
\* has begun; the other is the whole listing of its owner.
C15_Witness ==
  \E s1 \in Created, s2 \in Created :
    /\ objs[s1].userId # objs[s2].userId
    /\ Registered(s1) /\ ~objs[s1].isActive
    /\ GetUserSessions(objs[s1].userId) = <<>>
    /\ GetUserSessions(objs[s2].userId) = <<objs[s2]>>

\* C16: an updateSessionPosition on an id that is not registered, or whose
\* session is registered but no longer active, reports NotFound and changes
\* nothing: no session field, no notification, no generation request.
C16_UpdateNotFound ==
  [][\A s \in Sids :
       (resp'.op = "update" /\ resp'.sid = s /\ (~Registered(s) \/ ~objs[s].isActive))
         => /\ resp'.res = NotFound
            /\ UNCHANGED <<sessions, objs, tasks, made, unlinked, hist>>]_vars

\* C16 witness: NotFound for a session whose stop has begun and whose record
\* is still in the table.
C16_Witness ==
  /\ resp.op = "update" /\ resp.res = NotFound
  /\ Registered(resp.sid)
  /\ ~objs[resp.sid].isActive
  /\ tasks[resp.sid].stops # <<>>

\* C17: getStreamingUrl(id, i) is the audio path of the buffer's element i
\* (from 0) when the session is registered and active and 0 <= i < length,
\* and NotFound otherwise; getAffirmationUrl(id, a) is the audio path of the
\* pool member with id a, and NotFound when the pool has no such member.
C17_LookupsByIndexAndId ==
  \A s \in Sids :
    LET active == Registered(s) /\ objs[s].isActive
        Ids == {AudioId(x, n) : x \in Sids, n \in 1..2} \cup {SegmentId(s, 1)}
    IN /\ \A i \in -1..(DefaultBufferSize + EvictionSlack) :
            GetStreamingUrl(s, i) =
              IF active /\ 0 <= i /\ i < Len(objs[s].musicSegments)
              THEN Returns(objs[s].musicSegments[i + 1].audioPath)
              ELSE Throws(NotFound)
       /\ \A a \in Ids :
            LET members == IF active
                           THEN {j \in 1..Len(objs[s].affirmations) :
                                   objs[s].affirmations[j].id = a}
                           ELSE {}
            IN IF members = {}
               THEN GetAffirmationUrl(s, a) = Throws(NotFound)
               ELSE \E j \in members :
                      GetAffirmationUrl(s, a) = Returns(objs[s].affirmations[j].audioPath)

\* C17 witness: an active session after an eviction: index 0 is the second
\* segment made; the pool holds one clip.
C17_Witness ==
  \E s \in Created :
    /\ Registered(s) /\ objs[s].isActive
    /\ Unlinks(SegHandle(s, 1)) = 1
    /\ GetStreamingUrl(s, 0) = Returns(SegHandle(s, 2))
    /\ GetStreamingUrl(s, Len(objs[s].musicSegments)) = Throws(NotFound)
    /\ GetAffirmationUrl(s, AudioId(s, 1)) = Returns(AffHandle(s, 1))
    /\ GetAffirmationUrl(s, AudioId(s, 2)) = Throws(NotFound)

\* C18: when a stopSession call returns after its cleanup pass, it reports
\* success, the record is removed, and release has been requested for every
\* segment and affirmation the session held when the call began (the outcome
\* of a release request, success or failure, changes nothing in the pass).
C18_CleanupReleasesAllOwned ==
  resp.op = "stopReturn" =>
    /\ resp.res = "ok"
    /\ ~Registered(resp.sid)
    /\ \A h \in resp.owned : Unlinks(h) >= 1

\* C19: the currentPosition of every session is >= 0.
C19_PositionNonNegative ==
  \A s \in Created : objs[s].currentPosition >= 0

\* C20: a session with no updateSessionPosition call in progress has
\* lastAffirmationTime <= currentPosition.
C20_AffirmationTimeNotAhead ==
  \A s \in Created :
    (tasks[s].gen = 0 /\ tasks[s].evict = 0)
      => objs[s].lastAffirmationTime <= objs[s].currentPosition

\* C21: every buffered segment has duration > 0 (a synthesized clip's
\* duration is an estimate of at least one second for any text).
C21_DurationsPositive ==
  \A s \in Created :
    \A i \in 1..Len(objs[s].musicSegments) : objs[s].musicSegments[i].duration > 0

\* C22: every step operates on at most one session (a sweep pass: on the
\* sessions it stops); every other session keeps all its fields and its
\* place in the table, and no storage handle made for another session has
\* its release requested.
C22_SessionsIndependent ==
  [][LET Released == {h \in DOMAIN unlinked' : unlinked'[h] > Unlinks(h)}
         Touched == IF resp'.op = "sweep" THEN {resp'.stopped}
                    ELSE {T \in SUBSET (DOMAIN objs') : Cardinality(T) <= 1}
     IN \E T \in Touched :
          \A o \in Created \ T :
            /\ objs'[o] = objs[o]
            /\ (o \in Range(sessions')) = (o \in Range(sessions))
            /\ Released \cap HandlesOf(o) = {}]_vars

\* C22 witness: a stop of one session has returned after releasing its
\* clip, next to an untouched active session that holds a clip.
C22_Witness ==
  /\ resp.op = "stopReturn"
  /\ resp.owned # {}
  /\ \E o \in Created \ {resp.sid} :
       /\ Registered(o) /\ objs[o].isActive
       /\ objs[o].affirmations # <<>>
       /\ \A h \in HandlesOf(o) : Unlinks(h) = 0

C24_GrowthAppendsOne ==
  [][\A s \in Created :
       (/\ tasks'[s].gen = tasks[s].gen - 1 /\ made'[s].seg = made[s].seg + 1
        /\ objs[s].bufferSize >= 1)
         => LET old == objs[s].musicSegments
                new == objs'[s].musicSegments
                before == SubSeq(new, 1, Len(new) - 1)
            IN /\ Len(new) >= 1
               /\ new[Len(new)].audioPath = SegHandle(s, made'[s].seg)
               /\ new[Len(new)].duration = 60
               /\ \A i \in 1..Len(old) : old[i] # new[Len(new)]
               /\ \/ before = old
                  \/ old # <<>> /\ before = Tail(old)]_vars

\* C24 witness: a batch of three segments followed by one grown segment.
C24_Witness ==
  \E s \in Created :
    LET segs == objs[s].musicSegments IN
    /\ resp = UpdateReturns(s, "ok")
    /\ Len(segs) = DefaultBufferSize + 1
    /\ segs[Len(segs)].audioPath = SegHandle(s, made[s].seg)
    /\ segs[Len(segs)].duration = 60
    /\ segs[1].duration # 60

\* C25: when a generation call resolves with a segment and the buffer, with
\* that segment appended, holds more than bufferSize + 2 segments, exactly
\* one segment leaves the buffer in the same step, the head, and its release
\* is the only one requested; otherwise nothing leaves the buffer and no
\* release is requested.  No other step starts an eviction.
C25_EvictsOldestWhenOver ==
  [][\A s \in Created :
       LET old == objs[s].musicSegments
           new == objs'[s].musicSegments
           over == Len(old) + 1 > objs[s].bufferSize + 2
           Released == {h \in DOMAIN unlinked' : unlinked'[h] > Unlinks(h)}
           grown == tasks'[s].gen = tasks[s].gen - 1 /\ made'[s].seg = made[s].seg + 1
       IN /\ tasks'[s].evict > tasks[s].evict => grown /\ over
          /\ (grown /\ over /\ old # <<>>)
               => /\ Len(new) = Len(old)
                  /\ SubSeq(new, 1, Len(new) - 1) = Tail(old)
                  /\ Released = {old[1].audioPath}
                  /\ unlinked'[old[1].audioPath] = Unlinks(old[1].audioPath) + 1
                  /\ tasks'[s].evict = tasks[s].evict + 1
          /\ (grown /\ ~over)
               => /\ Len(new) = Len(old) + 1
                  /\ SubSeq(new, 1, Len(old)) = old
                  /\ Released = {}
                  /\ tasks'[s].evict = tasks[s].evict]_vars

\* C25 witness: the unlink of an evicted head is awaited; the buffer starts
\* at the second segment made and is full.
C25_Witness ==
  \E s \in Created :
    /\ tasks[s].evict > 0
    /\ Unlinks(SegHandle(s, 1)) = 1
    /\ Len(objs[s].musicSegments) = objs[s].bufferSize + 2
    /\ objs[s].musicSegments[1].audioPath = SegHandle(s, 2)

\* C26: while a session has not been stopped, a segment in its buffer stays
\* in the buffer in every step, except the head in a step that evicts it.
C26_NoBufferUpdateLost ==
  [][\A s \in Created :
       (hist[s].stopped = 0 /\ hist'[s].stopped = 0)
         => \A i \in 1..Len(objs[s].musicSegments) :
              \/ objs[s].musicSegments[i] \in Range(objs'[s].musicSegments)
              \/ i = 1 /\ tasks'[s].evict > tasks[s].evict]_vars

\* C27: no segmentsReady, newSegmentReady or affirmationsReady is emitted
\* for a session after its sessionStopped.
C27_NoNotificationAfterStop ==
  \A s \in Created : ~hist[s].lateNotify

\* C28: a step that evicts a segment evicts one at an index below
\* currentSegmentIndex: the head, at index 0, is evicted only when
\* currentSegmentIndex is at least 1.
C28_EvictsOnlyPlayed ==
  [][\A s \in Created :
       tasks'[s].evict > tasks[s].evict => objs[s].currentSegmentIndex >= 1]_vars

\* C29: an accepted update made while the pool is empty returns normally,
\* emits no playAffirmation and leaves lastAffirmationTime as it was.
C29_EmptyPoolSkips ==
  (resp.op = "update" /\ resp.res = "ok" /\ resp.pool = 0) =>
    /\ resp.played = <<>>
    /\ objs[resp.sid].lastAffirmationTime = resp.before
    /\ objs[resp.sid].currentPosition = resp.position

\* C29 witness: every synthesis of the batch failed, and an update two
\* intervals past lastAffirmationTime was accepted.
C29_Witness ==
  /\ resp.op = "update" /\ resp.res = "ok" /\ resp.pool = 0
  /\ tasks[resp.sid].aff = "done"
  /\ resp.position - resp.before >= 2 * objs[resp.sid].affirmationInterval

\* C30: a session's pool changes in one step only, the completion of its
\* synthesis batch, which finds it empty; that step leaves one clip for each
\* text that did not fail, the clips in the order of their texts.
C30_PoolFixedAtCreation ==
  [][\A s \in Created :
       LET pool == objs'[s].affirmations
           completes == tasks[s].aff = "pending" /\ tasks'[s].aff = "done"
       IN /\ pool # objs[s].affirmations => completes /\ objs[s].affirmations = <<>>
          /\ completes =>
               /\ Len(pool) = tasks[s].texts - (budget.failures - budget'.failures)
               /\ \A i \in 1..Len(pool) : pool[i].text \in 1..tasks[s].texts
               /\ \A i, j \in 1..Len(pool) : i < j => pool[i].text < pool[j].text]_vars

\* C30 witness: both texts of a batch synthesized, and a clip of the pool
\* was played afterwards.
C30_Witness ==
  \E s \in Created :
    /\ tasks[s].aff = "done" /\ tasks[s].texts = 2
    /\ Len(objs[s].affirmations) = 2
    /\ objs[s].affirmations[1].text = 1 /\ objs[s].affirmations[2].text = 2
    /\ Len(hist[s].played) >= 1

\* C31: a sweep pass begins the stop of a session only if the session is
\* registered and is inactive or older than 30 minutes; a session that is
\* active and at most 30 minutes old is left as it is.
C31_SweepSparesYoungActive ==
  [][resp'.op = "sweep" =>
       \A s \in Created :
         /\ (hist'[s].stopped > hist[s].stopped \/ s \in resp'.stopped)
              => Registered(s) /\ (~objs[s].isActive \/ now - objs[s].startTime > 30)
         /\ (objs[s].isActive /\ now - objs[s].startTime <= 30)
              => /\ objs'[s] = objs[s] /\ tasks'[s] = tasks[s] /\ hist'[s] = hist[s]
                 /\ Registered(s) => s \in Range(sessions')]_vars

\* C31 witness: a pass has run over an active session exactly 30 minutes old
\* and left it registered and active.
C31_Witness ==
  /\ resp.op = "sweep"
  /\ \E s \in Created \ resp.stopped :
       /\ Registered(s) /\ objs[s].isActive
       /\ Age(s) = 30
       /\ hist[s].stopped = 0

\* C32: a session whose stop has begun is inactive from the step that
\* begins it, so before any release of its cleanup pass is requested; while
\* its first stopSession call has not returned the record is registered; and
\* the step that removes the record finds release requested for every
\* segment and affirmation the record holds.
C32_StopOrder ==
  [][\A s \in Created :
       /\ (hist'[s].stopped > 0 \/ tasks'[s].stops # <<>>) => ~objs'[s].isActive
       /\ (tasks'[s].stops # <<>> /\ hist'[s].stopOk = 0) => s \in Range(sessions')
       /\ (s \in Range(sessions) /\ s \notin Range(sessions'))
            => \A h \in Owned(objs'[s]) :
                 h \in DOMAIN unlinked' /\ unlinked'[h] >= 1]_vars

\* C33: every segment of the batch that the initial population assigns has
\* the duration asked for at creation: the segmentDuration option, or 60
\* when it was omitted.
C33_InitialSegmentDuration ==
  [][\A s \in Created :
       (tasks[s].init = "pending" /\ tasks'[s].init = "done")
         => \A i \in 1..Len(objs'[s].musicSegments) :
              objs'[s].musicSegments[i].duration = tasks[s].initDuration]_vars

\* C34: the request of the initial batch, while it is outstanding, and every
\* growth request an accepted update issues carry the track type and the mood
\* tags of the session's track.
C34_GenerationUsesTrack ==
  /\ \A s \in Created :
       tasks[s].init = "pending"
         => /\ tasks[s].initOptions.trackType = GetTrack(objs[s].trackId).trackType
            /\ tasks[s].initOptions.moodTags = GetTrack(objs[s].trackId).moodTags
  /\ (resp.op = "update" /\ resp.res = "ok")
       => \A i \in 1..Len(resp.options) :
            /\ resp.options[i].trackType = GetTrack(objs[resp.sid].trackId).trackType
            /\ resp.options[i].moodTags = GetTrack(objs[resp.sid].trackId).moodTags

\* C35: for every session, sessionStopped is emitted at most once and at
\* most one stopSession call returns normally.
C35_StopsOnce ==
  \A s \in Created : hist[s].stopped <= 1 /\ hist[s].stopOk <= 1

\* C36: in every state, a handle that getStreamingUrl or getAffirmationUrl
\* returns is one whose release has not been requested.
C36_ReturnedHandleLive ==
  \A s \in Sids :
    /\ \A i \in 0..(DefaultBufferSize + EvictionSlack) :
         GetStreamingUrl(s, i).res = "ok" => Unlinks(GetStreamingUrl(s, i).audioPath) = 0
    /\ \A a \in {AudioId(s, n) : n \in 1..2} :
         GetAffirmationUrl(s, a).res = "ok" => Unlinks(GetAffirmationUrl(s, a).audioPath) = 0

\* C36 witness: both lookups return a handle while the unlink of an evicted
\* segment of the same session is awaited.
C36_Witness ==
  \E s \in Created :
    /\ tasks[s].evict > 0
    /\ \E h \in HandlesOf(s) : Unlinks(h) = 1
    /\ GetStreamingUrl(s, 0).res = "ok"
    /\ GetAffirmationUrl(s, AudioId(s, 1)).res = "ok"

\* C37: segment indices are stable from one step to the next: when
\* getStreamingUrl(id, i) returns a handle before a step and returns one
\* after it, the two handles are the same.
C37_IndicesStable ==
  [][\A s \in Created :
       \A i \in 0..(DefaultBufferSize + EvictionSlack) :
         (GetStreamingUrl(s, i).res = "ok" /\ GetStreamingUrl(s, i)'.res = "ok")
           => GetStreamingUrl(s, i)'.audioPath = GetStreamingUrl(s, i).audioPath]_vars

\* C38: currentSegmentIndex is 0 in every session in every state, and an
\* accepted update requests a generation exactly when the position is at
\* least the duration of the first buffered segment (60 when the buffer is
\* empty) minus 30.
C38_IndexStaysZero ==
  /\ \A s \in Created : objs[s].currentSegmentIndex = 0
  /\ (resp.op = "update" /\ resp.res = "ok") =>
       LET segs == objs[resp.sid].musicSegments
           first == IF Len(segs) = 0 THEN 60 ELSE segs[1].duration
       IN resp.generate <=> resp.position >= first - 30

\* C38 witness: an update against an empty buffer: position 29 is below
\* 60 - 30 and requests nothing.
C38_Witness ==
  /\ resp.op = "update" /\ resp.res = "ok"
  /\ objs[resp.sid].musicSegments = <<>>
  /\ resp.position = 29 /\ ~resp.generate
  /\ objs[resp.sid].currentSegmentIndex = 0

C40_PlaysOnlyWhileActive ==
  [][\A s \in Created :
       Len(hist'[s].played) > Len(hist[s].played)
         => /\ resp'.op = "update" /\ resp'.sid = s /\ Len(resp'.played) = 1
            /\ Registered(s) /\ objs[s].isActive /\ hist[s].stopped = 0
            /\ s \in Range(sessions') /\ objs'[s].isActive /\ hist'[s].stopped = 0
            /\ \E j \in 1..Len(objs'[s].affirmations) :
                 objs'[s].affirmations[j].id = resp'.played[1]
            /\ \A o \in Created \ {s} :
                 \A j \in 1..Len(objs'[o].affirmations) :
                   objs'[o].affirmations[j].id # resp'.played[1]]_vars

\* C40 witness: the second session played a clip of its pool while the
\* first one, whose stop has begun, holds a pool as well.
C40_Witness ==
  /\ resp.op = "update" /\ resp.res = "ok" /\ resp.sid = 2
  /\ resp.played = <<AudioId(2, 1)>>
  /\ objs[1].affirmations # <<>>
  /\ hist[1].stopped > 0
  /\ hist[2].stopped = 0
====
